---- MODULE Spec2Model ----
(***************************************************************************)
(* A model of TimeTableLib (src/timetable.js): the Timetable class, from   *)
(* the raw records handed to its constructor to the table it renders.      *)
(*                                                                         *)
(* src/timetable.js holds two versions of the class.  The first (lines     *)
(* 6-621) has the fixed 08:00-18:00 window, a row-span without minimum, a  *)
(* cached slotIndex and the modal; the second (lines 638-1026) derives the *)
(* window from the events, enforces minRowSpan and finds a row's events by *)
(* a range filter.  The variable "variant" says which one is loaded.       *)
(*                                                                         *)
(* Strings the code parses (Date, Heure) are sequences of one-character    *)
(* strings, and are parsed as the code parses them.                        *)
(***************************************************************************)
EXTENDS Integers, Sequences, FiniteSets, TLC

(***************************************************************************)
(* Bounds of the model.                                                    *)
(***************************************************************************)
\* the longest list of raw records handed to the constructor
MaxRecords == 3
\* the number of render() calls made on an instance after its construction
MaxRenders == 1

FixedWindow == "fixedWindow"
DataDriven == "dataDriven"
Variants == {FixedWindow, DataDriven}

(***************************************************************************)
(* JavaScript built-ins the code relies on.                                *)
(***************************************************************************)
Digit == {"0", "1", "2", "3", "4", "5", "6", "7", "8", "9"}

DigitVal(c) ==
    CASE c = "0" -> 0 [] c = "1" -> 1 [] c = "2" -> 2 [] c = "3" -> 3
      [] c = "4" -> 4 [] c = "5" -> 5 [] c = "6" -> 6 [] c = "7" -> 7
      [] c = "8" -> 8 [] c = "9" -> 9

DigitChar(n) ==
    CASE n = 0 -> "0" [] n = 1 -> "1" [] n = 2 -> "2" [] n = 3 -> "3"
      [] n = 4 -> "4" [] n = 5 -> "5" [] n = 6 -> "6" [] n = 7 -> "7"
      [] n = 8 -> "8" [] n = 9 -> "9"

\* Number(s) for a string of decimal digits ("09" is 9)
RECURSIVE ToNumber(_)
ToNumber(s) ==
    IF s = <<>> THEN 0
    ELSE 10 * ToNumber(SubSeq(s, 1, Len(s) - 1)) + DigitVal(s[Len(s)])

\* n.toString() for a non-negative integer
RECURSIVE NumToString(_)
NumToString(n) ==
    IF n < 10 THEN <<DigitChar(n)>>
    ELSE NumToString(n \div 10) \o <<DigitChar(n % 10)>>

\* s.padStart(2, "0")
PadStart2(s) == IF Len(s) < 2 THEN <<"0">> \o s ELSE s

\* Math.floor(a / b) and Math.ceil(a / b) for integers a and b > 0
Floor(a, b) == a \div b
Ceil(a, b) == -((-a) \div b)

\* F(x), with x evaluated once, before F: a statement sequenced after another
Then(x, F(_)) == CHOOSE r \in {F(v) : v \in {x}} : TRUE

Max(a, b) == IF a >= b THEN a ELSE b
Min(a, b) == IF a <= b THEN a ELSE b

\* s.split(sep): the pieces of s between the occurrences of the character sep
RECURSIVE Split(_, _)
Split(s, sep) ==
    IF \A i \in 1..Len(s) : s[i] # sep THEN <<s>>
    ELSE LET i == CHOOSE k \in 1..Len(s) :
                      s[k] = sep /\ \A j \in 1..(k - 1) : s[j] # sep
         IN  <<SubSeq(s, 1, i - 1)>> \o Split(SubSeq(s, i + 1, Len(s)), sep)

\* a faulty InsertByStart: a sort that is not stable: an element goes
\* before the elements that start when it does
InsertByStartUnstable(sorted, e) ==
    LET n == Cardinality({i \in 1..Len(sorted) :
                              sorted[i].startMinutes < e.startMinutes})
    IN  SubSeq(sorted, 1, n) \o <<e>> \o SubSeq(sorted, n + 1, Len(sorted))

\* Array.prototype.sort with the comparator a.startMinutes - b.startMinutes:
\* stable, so an element goes after every element that does not start later
InsertByStart(sorted, e) ==
    LET n == Cardinality({i \in 1..Len(sorted) :
                              sorted[i].startMinutes <= e.startMinutes})
    IN  SubSeq(sorted, 1, n) \o <<e>> \o SubSeq(sorted, n + 1, Len(sorted))

RECURSIVE SortByStart(_)
SortByStart(events) ==
    IF events = <<>> THEN <<>>
    ELSE Then(SortByStart(SubSeq(events, 1, Len(events) - 1)),
              LAMBDA sorted : InsertByStart(sorted, events[Len(events)]))

\* new Date(year, monthIndex, day).getDay(), 0 = Sunday; years 0..99 are 1900+
GetDay(year, monthIndex, day) ==
    LET y  == IF year \in 0..99 THEN 1900 + year ELSE year
        m  == monthIndex + 1
        t  == <<0, 3, 2, 5, 0, 3, 5, 1, 4, 6, 2, 4>>
        yy == IF m < 3 THEN y - 1 ELSE y
    IN  (yy + (yy \div 4) - (yy \div 100) + (yy \div 400) + t[m] + day) % 7

(***************************************************************************)
(* _mergeDefaultOptions: the defaults, overridden by the user's options.   *)
(* userOptions is a record; a key it does not have keeps its default.      *)
(***************************************************************************)
DefaultWeekdays == <<"Monday", "Tuesday", "Wednesday", "Thursday", "Friday">>

DefaultOptions(variant) ==
    IF variant = FixedWindow
    THEN [weekdays |-> DefaultWeekdays, timeInterval |-> 15, minRowSpan |-> 2,
          showIcons |-> TRUE, modalEnabled |-> TRUE]
    ELSE [weekdays |-> DefaultWeekdays, timeInterval |-> 15, minRowSpan |-> 2,
          showIcons |-> TRUE]

mergeDefaultOptions(variant, userOptions) ==
    LET defaults == DefaultOptions(variant)
        keys == DOMAIN defaults \cup DOMAIN userOptions
    IN  [k \in keys |-> IF k \in DOMAIN userOptions THEN userOptions[k]
                        ELSE defaults[k]]

(***************************************************************************)
(* prepareData: raw records to the day buckets.                            *)
(***************************************************************************)
\* the value of days[date.getDay()] when the index is past the array's end
NoDay == "undefined"

\* the days array of getDayOfWeek: six names in the first version of the
\* class, seven in the second
DayNames(variant) ==
    IF variant = FixedWindow
    THEN <<"Sunday", "Monday", "Tuesday", "Wednesday", "Thursday", "Friday">>
    ELSE <<"Sunday", "Monday", "Tuesday", "Wednesday", "Thursday", "Friday",
           "Saturday">>

getDayOfWeek(variant, dateStr) ==
    LET parts == Split(dateStr, "/")
        index == GetDay(ToNumber(parts[3]), ToNumber(parts[2]) - 1,
                        ToNumber(parts[1]))
        days  == DayNames(variant)
    IN  IF index + 1 \in DOMAIN days THEN days[index + 1] ELSE NoDay

\* \d{1,2}:\d{2} at position i of s, with hl digits of hours
TimeAt(s, i, hl) ==
    /\ i >= 1
    /\ i + hl + 2 <= Len(s)
    /\ \A j \in i..(i + hl - 1) : s[j] \in Digit
    /\ s[i + hl] = ":"
    /\ s[i + hl + 1] \in Digit
    /\ s[i + hl + 2] \in Digit

\* the ways (\d{1,2}:\d{2})-(\d{1,2}:\d{2}) matches s from position i on:
\* the numbers of hour digits of the two groups
MatchesAt(s, i) ==
    {hl \in {1, 2} \X {1, 2} :
        /\ TimeAt(s, i, hl[1])
        /\ i + hl[1] + 3 <= Len(s)
        /\ s[i + hl[1] + 3] = "-"
        /\ TimeAt(s, i + hl[1] + 4, hl[2])}

\* timeStr.match(/(\d{1,2}:\d{2})-(\d{1,2}:\d{2})/): <<>> for null, else the
\* leftmost match (the regex is not anchored), its quantifiers greedy:
\* <<whole match, group 1, group 2>>
RegexMatch(s) ==
    LET at == {i \in 1..Len(s) : MatchesAt(s, i) # {}}
    IN  IF at = {} THEN <<>>
        ELSE LET i  == CHOOSE k \in at : \A j \in at : k <= j
                 hl == CHOOSE h \in MatchesAt(s, i) :
                           \A g \in MatchesAt(s, i) :
                               h[1] > g[1] \/ (h[1] = g[1] /\ h[2] >= g[2])
                 stop == i + hl[1] + hl[2] + 6
             IN  <<SubSeq(s, i, stop),
                   SubSeq(s, i, i + hl[1] + 2),
                   SubSeq(s, i + hl[1] + 4, stop)>>

\* a faulty getMinutes: the factor 60 on the minutes instead of the hours
getMinutesSwapped(time) ==
    LET parts == Split(time, ":")
    IN  ToNumber(parts[1]) + ToNumber(parts[2]) * 60

getMinutes(time) ==
    LET parts == Split(time, ":")
    IN  ToNumber(parts[1]) * 60 + ToNumber(parts[2])

\* processTime: .slice on the null of a failed match throws a TypeError
processTime(timeStr) ==
    Then(RegexMatch(timeStr), LAMBDA m :
        IF m = <<>> THEN [threw |-> TRUE]
        ELSE [threw |-> FALSE,
              startTime |-> m[2],
              endTime |-> m[3],
              startMinutes |-> getMinutes(m[2]),
              endMinutes |-> getMinutes(m[3]),
              duration |-> getMinutes(m[3]) - getMinutes(m[2])])

\* a || b for strings: the empty string (as null and undefined) is falsy
OrElse(a, b) == IF a # "" THEN a ELSE b

\* the key the version reads the category from: "Catégorie d’événement" with
\* a typographic apostrophe in the first version, a straight one in the second
CategoryOf(variant, event) ==
    IF variant = FixedWindow THEN event.Categorie ELSE event.CategorieAscii

\* the object pushed into a day bucket; id is the record's position in the
\* raw input and stands for the object's identity; slotIndex is not set yet
NormalizedEvent(variant, event, id, timeInfo) ==
    [id |-> id,
     startTime |-> timeInfo.startTime,
     endTime |-> timeInfo.endTime,
     startMinutes |-> timeInfo.startMinutes,
     endMinutes |-> timeInfo.endMinutes,
     duration |-> timeInfo.duration,
     name |-> OrElse(event.Matiere,
                     OrElse(CategoryOf(variant, event), "Unspecified")),
     location |-> OrElse(event.Salle, "TBD"),
     staff |-> OrElse(event.Personnel, "N/A"),
     group |-> OrElse(event.Groupe, "All"),
     category |-> OrElse(CategoryOf(variant, event), "Other"),
     remarks |-> OrElse(event.Remarques, ""),
     slotIndex |-> <<>>]

Range(s) == {s[i] : i \in 1..Len(s)}

\* a faulty prepareOne: a record whose time range does not parse is
\* skipped instead of ending the construction
prepareOneSkipsBad(variant, prepared, event, id) ==
    Then(getDayOfWeek(variant, event.Date), LAMBDA day :
        IF day \in DOMAIN prepared
        THEN Then(processTime(event.Heure), LAMBDA timeInfo :
                 IF timeInfo.threw THEN [threw |-> FALSE, prepared |-> prepared]
                 ELSE [threw |-> FALSE,
                       prepared |->
                           [prepared EXCEPT ![day] = Append(@,
                               NormalizedEvent(variant, event, id, timeInfo))]])
        ELSE [threw |-> FALSE, prepared |-> prepared])

\* a faulty prepareOne: without the test if (prepared[day]): the push on
\* the undefined bucket of a day that is not configured throws
prepareOneUnguarded(variant, prepared, event, id) ==
    Then(getDayOfWeek(variant, event.Date), LAMBDA day :
        IF day \in DOMAIN prepared
        THEN Then(processTime(event.Heure), LAMBDA timeInfo :
                 IF timeInfo.threw THEN [threw |-> TRUE]
                 ELSE [threw |-> FALSE,
                       prepared |->
                           [prepared EXCEPT ![day] = Append(@,
                               NormalizedEvent(variant, event, id, timeInfo))]])
        ELSE [threw |-> TRUE])

\* one turn of rawData.forEach: the record at position id
prepareOne(variant, prepared, event, id) ==
    Then(getDayOfWeek(variant, event.Date), LAMBDA day :
        IF day \in DOMAIN prepared
        THEN Then(processTime(event.Heure), LAMBDA timeInfo :
                 IF timeInfo.threw THEN [threw |-> TRUE]
                 ELSE [threw |-> FALSE,
                       prepared |->
                           [prepared EXCEPT ![day] = Append(@,
                               NormalizedEvent(variant, event, id, timeInfo))]])
        ELSE [threw |-> FALSE, prepared |-> prepared])

\* rawData.forEach from position id on; a throw ends it
RECURSIVE prepareFrom(_, _, _, _)
prepareFrom(variant, prepared, rawData, id) ==
    IF id > Len(rawData) THEN [threw |-> FALSE, prepared |-> prepared]
    ELSE Then(prepareOne(variant, prepared, rawData[id], id),
              LAMBDA one :
                  IF one.threw THEN one
                  ELSE prepareFrom(variant, one.prepared, rawData, id + 1))

prepareData(variant, options, rawData) ==
    prepareFrom(variant, [day \in Range(options.weekdays) |-> <<>>],
                rawData, 1)

(***************************************************************************)
(* generateTimeSlots: the rows of the grid.                                *)
(***************************************************************************)
\* the fixed window of the first version, in hours
startHour == 8
endHour == 18

TimeSlot(time) ==
    LET hour   == Floor(time, 60)
        minute == time % 60
    IN  [label |-> PadStart2(NumToString(hour)) \o <<":">>
                       \o PadStart2(NumToString(minute)),
         minutes |-> time,
         isHour |-> (minute = 0),
         isHalfHour |-> (minute = 30)]

\* the loop below runs at most 2^LoopDepth turns
LoopDepth == 12

\* at most 2^k turns of the loop of SlotsFrom, from the value time of its
\* variable on: the slots they push and the variable's value after them
RECURSIVE SlotsLoop(_, _, _, _)
SlotsLoop(time, to, interval, k) ==
    IF k = 0
    THEN IF time < to
         THEN [slots |-> <<TimeSlot(time)>>, time |-> time + interval]
         ELSE [slots |-> <<>>, time |-> time]
    ELSE Then(SlotsLoop(time, to, interval, k - 1), LAMBDA a :
             IF a.time < to
             THEN Then(SlotsLoop(a.time, to, interval, k - 1), LAMBDA b :
                      [slots |-> a.slots \o b.slots, time |-> b.time])
             ELSE a)

\* for (time = from; time < to; time += interval) slots.push(...)
SlotsFrom(from, to, interval) == SlotsLoop(from, to, interval, LoopDepth).slots

\* every event of every day bucket
AllEvents(data) == UNION {Range(data[day]) : day \in DOMAIN data}

\* Math.min / Math.max folded over a set of numbers, from a start value
MinOver(start, S) ==
    IF \E x \in S : x < start
    THEN CHOOSE x \in S : \A y \in S : x <= y
    ELSE start
MaxOver(start, S) ==
    IF \E x \in S : x > start
    THEN CHOOSE x \in S : \A y \in S : x >= y
    ELSE start

\* a faulty generateTimeSlotsFixed: the loop with time <= endTimeMinutes
generateTimeSlotsFixedInclusive(options) ==
    SlotsFrom(startHour * 60, endHour * 60 + 1, options.timeInterval)

generateTimeSlotsFixed(options) ==
    SlotsFrom(startHour * 60, endHour * 60, options.timeInterval)

generateTimeSlotsData(options, data) ==
    LET earliestStart ==
            MinOver(23 * 60 + 59, {e.startMinutes : e \in AllEvents(data)})
        latestEnd ==
            MaxOver(0, {e.endMinutes : e \in AllEvents(data)})
        interval == options.timeInterval
    IN  SlotsFrom(Floor(earliestStart, interval) * interval,
                  Ceil(latestEnd, interval) * interval, interval)

generateTimeSlots(variant, options, data) ==
    IF variant = FixedWindow THEN generateTimeSlotsFixed(options)
    ELSE generateTimeSlotsData(options, data)

(***************************************************************************)
(* getTimeSlotIndex (first version only) and getRowSpan.                   *)
(***************************************************************************)
\* a faulty getTimeSlotIndex: the index without the clamp into the grid
getTimeSlotIndexUnclamped(options, timeSlots, timeInMinutes) ==
    Floor(timeInMinutes - timeSlots[1].minutes, options.timeInterval)

getTimeSlotIndex(options, timeSlots, timeInMinutes) ==
    LET interval == options.timeInterval
        firstSlotMinutes == timeSlots[1].minutes
        slotIndex == Floor(timeInMinutes - firstSlotMinutes, interval)
    IN  Max(0, Min(slotIndex, Len(timeSlots) - 1))

getRowSpanFixed(options, duration) ==
    Ceil(duration, options.timeInterval)

getRowSpanData(options, duration) ==
    Max(options.minRowSpan, Ceil(duration, options.timeInterval))

getRowSpan(variant, options, duration) ==
    IF variant = FixedWindow THEN getRowSpanFixed(options, duration)
    ELSE getRowSpanData(options, duration)

(***************************************************************************)
(* _cleanCategoryForCss (first version) and the class token of the second  *)
(* version.  A category is taken apart here, so it is a sequence of        *)
(* one-character strings.                                                  *)
(***************************************************************************)
\* the characters \s matches and trim() strips, of those the model writes
Whitespace == {" "}

UpperCase == <<"A", "B", "C", "D", "E", "F", "G", "H", "I", "J", "K", "L", "M",
               "N", "O", "P", "Q", "R", "S", "T", "U", "V", "W", "X", "Y", "Z">>
LowerCase == <<"a", "b", "c", "d", "e", "f", "g", "h", "i", "j", "k", "l", "m",
               "n", "o", "p", "q", "r", "s", "t", "u", "v", "w", "x", "y", "z">>

\* s.toLowerCase()
ToLowerCase(s) ==
    [i \in 1..Len(s) |->
        IF \E k \in 1..26 : UpperCase[k] = s[i]
        THEN LowerCase[CHOOSE k \in 1..26 : UpperCase[k] = s[i]]
        ELSE s[i]]

\* \s*\([^)]*\) matches s from position i on: the whitespace from i on is
\* followed by "(", and a ")" comes after it
ParenAt(s, i) ==
    \E j \in i..Len(s) :
        /\ \A h \in i..(j - 1) : s[h] \in Whitespace
        /\ s[j] = "("
        /\ \E k \in (j + 1)..Len(s) : s[k] = ")"

\* s.replace(/\s*\([^)]*\)/g, ""): the leftmost match, which ends at the
\* first ")" after its "(", is cut out, and the search goes on after it
RECURSIVE RemoveParens(_)
RemoveParens(s) ==
    IF \A i \in 1..Len(s) : ~ParenAt(s, i) THEN s
    ELSE LET i == CHOOSE a \in 1..Len(s) :
                      ParenAt(s, a) /\ \A b \in 1..(a - 1) : ~ParenAt(s, b)
             j == CHOOSE a \in i..Len(s) :
                      s[a] = "(" /\ \A b \in i..(a - 1) : s[b] # "("
             k == CHOOSE a \in (j + 1)..Len(s) :
                      s[a] = ")" /\ \A b \in (j + 1)..(a - 1) : s[b] # ")"
         IN  SubSeq(s, 1, i - 1) \o RemoveParens(SubSeq(s, k + 1, Len(s)))

\* s.trim()
RECURSIVE Trim(_)
Trim(s) ==
    IF s = <<>> THEN s
    ELSE IF s[1] \in Whitespace THEN Trim(Tail(s))
    ELSE IF s[Len(s)] \in Whitespace THEN Trim(SubSeq(s, 1, Len(s) - 1))
    ELSE s

\* s.replace(/\s+/g, "-"): every run of whitespace becomes one hyphen
RECURSIVE Hyphenate(_)
Hyphenate(s) ==
    IF s = <<>> THEN s
    ELSE IF s[1] \notin Whitespace THEN <<s[1]>> \o Hyphenate(Tail(s))
    ELSE IF Len(s) > 1 /\ s[2] \in Whitespace THEN Hyphenate(Tail(s))
    ELSE <<"-">> \o Hyphenate(Tail(s))

\* _cleanCategoryForCss(category); an absent category (undefined, null or
\* the empty string, all falsy) is the empty sequence
cleanCategoryForCss(category) ==
    IF category = <<>> THEN <<"o", "t", "h", "e", "r">>
    ELSE Hyphenate(Trim(ToLowerCase(RemoveParens(category))))

\* the second version's event.category.toLowerCase().replace(/\s+/g, "-")
categoryClassData(category) == Hyphenate(ToLowerCase(category))

\* element.classList.add(token) throws on an empty token (SyntaxError) and
\* on one that holds whitespace (InvalidCharacterError)
classListAddThrows(token) ==
    token = <<>> \/ \E i \in 1..Len(token) : token[i] \in Whitespace

\* the characters of the categories of the events (the raw records write
\* them as strings)
CategoryChars(category) ==
    CASE category = "Other" -> <<"O", "t", "h", "e", "r">>
      [] category = "TD" -> <<"T", "D">>
      [] category = "(CM)" -> <<"(", "C", "M", ")">>
      [] category = "Cours Magistraux (CM)" ->
             <<"C", "o", "u", "r", "s", " ", "M", "a", "g", "i", "s", "t", "r",
               "a", "u", "x", " ", "(", "C", "M", ")">>
      [] category = "Travaux Pratiques (TP)" ->
             <<"T", "r", "a", "v", "a", "u", "x", " ", "P", "r", "a", "t", "i",
               "q", "u", "e", "s", " ", "(", "T", "P", ")">>

\* categoryClass, the class render gives an event's div and colour bar
categoryClass(variant, category) ==
    IF variant = FixedWindow
    THEN cleanCategoryForCss(CategoryChars(category))
    ELSE categoryClassData(CategoryChars(category))

(***************************************************************************)
(* render.  The table is the sequence of the day cells in the order they   *)
(* are appended (row by row, and in a row day by day); the time cell that  *)
(* starts every row is left out.  Rows are numbered from 0, as in the code.*)
(***************************************************************************)
\* this.data[day].sort(...) for each day
sortDays(data) == [day \in DOMAIN data |-> SortByStart(data[day])]

\* a faulty assignSlotIndex: it also moves the event's start to the start
\* of its slot
assignSlotIndexSnaps(options, timeSlots, data) ==
    [day \in DOMAIN data |->
        [i \in 1..Len(data[day]) |->
            LET k == getTimeSlotIndex(options, timeSlots,
                                      data[day][i].startMinutes)
            IN  [data[day][i] EXCEPT !.slotIndex = <<k>>,
                                     !.startMinutes = timeSlots[k + 1].minutes]]]

\* event.slotIndex = this.getTimeSlotIndex(event.startMinutes), each event
assignSlotIndex(options, timeSlots, data) ==
    [day \in DOMAIN data |->
        [i \in 1..Len(data[day]) |->
            [data[day][i] EXCEPT !.slotIndex =
                <<getTimeSlotIndex(options, timeSlots,
                                   data[day][i].startMinutes)>>]]]

\* the filter of a row: by the cached slotIndex in the first version, by the
\* row's time range in the second
startsHere(variant, options, timeSlot, slotIndex, event) ==
    IF variant = FixedWindow
    THEN event.slotIndex = <<slotIndex>>
    ELSE /\ event.startMinutes >= timeSlot.minutes
         /\ event.startMinutes < timeSlot.minutes + options.timeInterval

\* a faulty eventsStartingHere: find instead of filter: the first event
\* of the row only
eventsStartingHereFirst(variant, options, dayEvents, timeSlot, slotIndex) ==
    LET Here(event) == startsHere(variant, options, timeSlot, slotIndex, event)
        all == SelectSeq(dayEvents, Here)
    IN  IF all = <<>> THEN <<>> ELSE <<all[1]>>

eventsStartingHere(variant, options, dayEvents, timeSlot, slotIndex) ==
    LET Here(event) == startsHere(variant, options, timeSlot, slotIndex, event)
    IN  SelectSeq(dayEvents, Here)

\* a faulty markedRows: the loop stops after its first turn: only the
\* next row is marked
markedRowsNextOnly(rowSpan, slotIndex, slotCount) ==
    IF rowSpan > 1 /\ slotIndex + 1 < slotCount THEN {slotIndex + 1} ELSE {}

\* a faulty markedRows: the loop without the bound slotIndex + i <
\* timeSlots.length
markedRowsUnbounded(rowSpan, slotIndex, slotCount) ==
    IF rowSpan > 1 THEN {slotIndex + i : i \in 1..(rowSpan - 1)} ELSE {}

\* the rows the loop "mark future slots as occupied" marks for one event
markedRows(rowSpan, slotIndex, slotCount) ==
    IF rowSpan > 1
    THEN {slotIndex + i : i \in {j \in 1..(rowSpan - 1) : slotIndex + j < slotCount}}
    ELSE {}

\* the children of an event's "event-details" element, in their order: the
\* class of each, whether it starts with an icon (else with a text label)
\* and the text it shows
eventDetails(options, event) ==
    LET Detail(class, text) ==
            <<[class |-> class, icon |-> options.showIcons, text |-> text]>>
    IN  (IF event.location # "" /\ event.location # "TBD"
         THEN Detail("location", event.location) ELSE <<>>)
        \o (IF event.staff # "" /\ event.staff # "N/A"
            THEN Detail("staff", event.staff) ELSE <<>>)
        \o (IF event.group # "" /\ event.group # "All"
            THEN Detail("group", event.group) ELSE <<>>)
        \o (IF event.remarks # ""
            THEN Detail("remarks", event.remarks) ELSE <<>>)

\* the td of an event: rowSpan is getRowSpan's result, rowspan the attribute
\* (set only when rowSpan > 1), categoryClass the class of its div, details
\* what its "event-details" element shows, event the object its click
\* handler holds, onClick whether it has one (the first version's, if
\* modalEnabled)
eventCell(variant, options, day, slotIndex, event) ==
    LET rowSpan == getRowSpan(variant, options, event.duration)
    IN  [kind |-> "event", row |-> slotIndex, day |-> day, event |-> event,
         rowSpan |-> rowSpan,
         rowspan |-> IF rowSpan > 1 THEN <<rowSpan>> ELSE <<>>,
         categoryClass |-> categoryClass(variant, event.category),
         details |-> eventDetails(options, event),
         onClick |-> (variant = FixedWindow /\ options.modalEnabled)]

emptyCell(day, slotIndex) ==
    [kind |-> "empty", row |-> slotIndex, day |-> day]

\* one turn of days.forEach inside a row: acc holds the cells appended so far
\* and cellOccupied (per day, the rows set to true)
renderDayCell(variant, options, data, timeSlots, acc, slotIndex, day) ==
    IF slotIndex \in acc.cellOccupied[day] THEN acc
    ELSE LET here == eventsStartingHere(variant, options, data[day],
                                        timeSlots[slotIndex + 1], slotIndex)
         IN  IF Len(here) > 0
             THEN [cells |-> acc.cells \o
                       [k \in 1..Len(here) |->
                           eventCell(variant, options, day, slotIndex, here[k])],
                   cellOccupied |-> [acc.cellOccupied EXCEPT ![day] = @ \cup
                       UNION {markedRows(
                                  getRowSpan(variant, options, here[k].duration),
                                  slotIndex, Len(timeSlots)) : k \in 1..Len(here)}]]
             ELSE [cells |-> Append(acc.cells, emptyCell(day, slotIndex)),
                   cellOccupied |-> acc.cellOccupied]

\* days.forEach of row slotIndex, from the d-th day on
RECURSIVE renderRowFrom(_, _, _, _, _, _, _)
renderRowFrom(variant, options, data, timeSlots, acc, slotIndex, d) ==
    IF d > Len(options.weekdays) THEN acc
    ELSE Then(renderDayCell(variant, options, data, timeSlots, acc, slotIndex,
                            options.weekdays[d]),
              LAMBDA next : renderRowFrom(variant, options, data, timeSlots,
                                          next, slotIndex, d + 1))

\* the turns of this.timeSlots.forEach for the rows from..(to - 1), in
\* order: the first half of them, then the second
RECURSIVE renderRowsBetween(_, _, _, _, _, _, _)
renderRowsBetween(variant, options, data, timeSlots, acc, from, to) ==
    IF from >= to THEN acc
    ELSE IF to = from + 1
    THEN renderRowFrom(variant, options, data, timeSlots, acc, from, 1)
    ELSE Then(renderRowsBetween(variant, options, data, timeSlots, acc,
                                from, (from + to) \div 2),
              LAMBDA next : renderRowsBetween(variant, options, data,
                                              timeSlots, next,
                                              (from + to) \div 2, to))

\* this.timeSlots.forEach, from row slotIndex on
renderRowsFrom(variant, options, data, timeSlots, acc, slotIndex) ==
    renderRowsBetween(variant, options, data, timeSlots, acc, slotIndex,
                      Len(timeSlots))

\* the body of the table, from the sorted (and, in the first version,
\* slot-indexed) day buckets
renderTable(variant, options, data, timeSlots) ==
    renderRowsFrom(variant, options, data, timeSlots,
        [cells |-> <<>>, cellOccupied |-> [day \in DOMAIN data |-> {}]], 0)

\* the day buckets as render leaves them
renderData(variant, options, timeSlots, data) ==
    IF variant = FixedWindow
    THEN Then(sortDays(data),
              LAMBDA sorted : assignSlotIndex(options, timeSlots, sorted))
    ELSE sortDays(data)

(***************************************************************************)
(* The instance and the page.  A world w is the instance's own properties  *)
(* (w.this, a record that has a field once the constructor has assigned    *)
(* it) with what the code touches of the document and the console.         *)
(***************************************************************************)
NullModal == [isNull |-> TRUE, active |-> FALSE]

\* classList.add throws on the class of one of the event cells of a table
\* under construction
tableThrows(table) ==
    \E k \in 1..Len(table.cells) :
        /\ table.cells[k].kind = "event"
        /\ classListAddThrows(table.cells[k].categoryClass)

\* render when classList.add throws: the container is emptied already, the
\* table is not appended yet, the events are sorted (and slot-indexed)
renderThrown(w, data) ==
    [w EXCEPT !.this.data = data,
              !.containerHTML = "",
              !.cells = <<>>,
              !.cellOccupied = <<>>,
              !.threw = TRUE]

\* a faulty render: without this.container.innerHTML = "": the container
\* keeps the cells of the pass before, and the new ones come after them
renderAppends(variant, w) ==
    IF w.this.container = "null"
    THEN [w EXCEPT !.consoleErrors = @ + 1, !.threw = FALSE]
    ELSE Then(renderData(variant, w.this.options, w.this.timeSlots,
                         w.this.data),
              LAMBDA data :
         Then(renderTable(variant, w.this.options, data, w.this.timeSlots),
              LAMBDA table :
                  IF tableThrows(table) THEN renderThrown(w, data)
                  ELSE [w EXCEPT !.this.data = data,
                                 !.containerHTML = "table",
                                 !.cells = w.cells \o table.cells,
                                 !.cellOccupied = table.cellOccupied,
                                 !.threw = FALSE]))

\* render: the whole method; threw says whether it threw
render(variant, w) ==
    IF w.this.container = "null"
    THEN [w EXCEPT !.consoleErrors = @ + 1, !.threw = FALSE]
    ELSE Then(renderData(variant, w.this.options, w.this.timeSlots,
                         w.this.data),
              LAMBDA data :
         Then(renderTable(variant, w.this.options, data, w.this.timeSlots),
              LAMBDA table :
                  IF tableThrows(table) THEN renderThrown(w, data)
                  ELSE [w EXCEPT !.this.data = data,
                                 !.containerHTML = "table",
                                 !.cells = table.cells,
                                 !.cellOccupied = table.cellOccupied,
                                 !.threw = FALSE]))

\* _loadDependencies: the Font Awesome link, once per document
loadDependencies(w) ==
    IF w.this.options.showIcons /\ ~w.fontAwesome
    THEN [w EXCEPT !.fontAwesome = TRUE]
    ELSE w

\* _createModal (first version): the backdrop appended to document.body
createModal(w) ==
    IF ~w.this.options.modalEnabled THEN w
    ELSE [w EXCEPT !.docModals = @ + 1,
                   !.this.modalElement =
                       [isNull |-> FALSE, active |-> FALSE,
                        colorIndicator |-> <<>>, title |-> "", body |-> <<>>,
                        footer |-> ""]]

\* the sections openModal builds for an event: heading and text
modalContent(event) ==
    << <<"Time", <<event.startTime, event.endTime>> >> >>
    \o (IF event.category # "" THEN << <<"Category", event.category>> >>
        ELSE <<>>)
    \o (IF event.location # "" /\ event.location # "TBD"
        THEN << <<"Location", event.location>> >> ELSE <<>>)
    \o (IF event.staff # "" /\ event.staff # "N/A"
        THEN << <<"Staff", event.staff>> >> ELSE <<>>)
    \o (IF event.group # "" /\ event.group # "All"
        THEN << <<"Group", event.group>> >> ELSE <<>>)
    \o (IF event.remarks # "" THEN << <<"Notes", event.remarks>> >> ELSE <<>>)

\* a faulty openModal: without the test of modalEnabled and of the modal
\* element: it locks the page's scrolling also when there is no modal
openModalUnguarded(w, event) ==
    IF w.this.modalElement.isNull
    THEN [w EXCEPT !.bodyOverflow = "hidden", !.threw = FALSE]
    ELSE [w EXCEPT !.this.modalElement =
                       [isNull |-> FALSE, active |-> TRUE,
                        colorIndicator |->
                            cleanCategoryForCss(CategoryChars(event.category)),
                        title |-> event.name,
                        body |-> modalContent(event),
                        footer |-> "btn-close"],
                   !.bodyOverflow = "hidden",
                   !.threw = FALSE]

\* openModal (first version); colorIndicator is the category class of the
\* colour indicator, none once its className is set anew.  classList.add
\* throws before the title, the body, the footer, the backdrop and the
\* page's scrolling are touched
openModal(w, event) ==
    IF w.this.modalElement.isNull \/ ~w.this.options.modalEnabled
    THEN [w EXCEPT !.threw = FALSE]
    ELSE Then(cleanCategoryForCss(CategoryChars(event.category)),
              LAMBDA token :
                  IF classListAddThrows(token)
                  THEN [w EXCEPT !.this.modalElement.colorIndicator = <<>>,
                                 !.threw = TRUE]
                  ELSE [w EXCEPT !.this.modalElement =
                                     [isNull |-> FALSE, active |-> TRUE,
                                      colorIndicator |-> token,
                                      title |-> event.name,
                                      body |-> modalContent(event),
                                      footer |-> "btn-close"],
                                 !.bodyOverflow = "hidden",
                                 !.threw = FALSE])

\* closeModal (first version)
closeModal(w) ==
    IF w.this.modalElement.isNull THEN [w EXCEPT !.threw = FALSE]
    ELSE [w EXCEPT !.this.modalElement.active = FALSE,
                   !.bodyOverflow = "",
                   !.threw = FALSE]

\* a click on a close button of the modal, the header's or the footer's:
\* its listener calls closeModal (the backdrop's listener, which the click
\* reaches next, sees another target than the backdrop)
clickClose(w) == closeModal(w)

\* the click listener of the backdrop, for a click on the backdrop itself
\* ("backdrop") or on something inside the modal ("content")
clickBackdrop(w, target) ==
    IF target = "backdrop" THEN closeModal(w) ELSE w

\* a click on the k-th cell of the table, an event's: its listener, if any
clickEvent(w, k) ==
    IF w.cells[k].onClick THEN openModal(w, w.cells[k].event) ELSE w

\* the Escape key: the keydown listener _createModal adds to the document
\* with the modal (the second version has none)
pressEscape(variant, w) ==
    IF variant = FixedWindow /\ ~w.this.modalElement.isNull
           /\ w.this.modalElement.active
    THEN closeModal(w)
    ELSE w

\* this.<field> = value
SetField(w, field, value) ==
    [w EXCEPT !.this = [f \in DOMAIN w.this \cup {field} |->
                            IF f = field THEN value ELSE w.this[f]]]

\* the constructor from this.modalElement = null on (first version), from
\* _loadDependencies on (second version)
constructAfterSlots(variant, w) ==
    IF variant = FixedWindow
    THEN Then(createModal(loadDependencies(
                  SetField(w, "modalElement", NullModal))),
              LAMBDA w1 : render(variant, w1))
    ELSE Then(loadDependencies(w), LAMBDA w1 : render(variant, w1))

\* the constructor after this.data is assigned
constructAfterData(variant, w) ==
    Then(SetField(w, "timeSlots",
                  generateTimeSlots(variant, w.this.options, w.this.data)),
         LAMBDA w1 : constructAfterSlots(variant, w1))

\* a faulty constructor: the first version generating its time slots,
\* which do not depend on the data, before it prepares the data
constructorSlotsFirst(variant, found, rawData, userOptions, w0) ==
    Then(SetField(SetField(w0, "container",
                           IF found THEN "element" ELSE "null"),
                  "options", mergeDefaultOptions(variant, userOptions)),
         LAMBDA w2 :
    Then(IF variant = FixedWindow
         THEN SetField(w2, "timeSlots", generateTimeSlotsFixed(w2.this.options))
         ELSE w2,
         LAMBDA w3 :
    Then(prepareData(variant, w3.this.options, rawData),
         LAMBDA p :
             IF p.threw THEN [threw |-> TRUE, world |-> w3]
             ELSE Then(Then(SetField(w3, "data", p.prepared),
                            LAMBDA w4 : constructAfterData(variant, w4)),
                       LAMBDA w5 : [threw |-> w5.threw, world |-> w5]))))

\* a faulty constructor: it returns right after the options when the
\* container is not found
constructorNeedsContainer(variant, found, rawData, userOptions, w0) ==
    Then(SetField(SetField(w0, "container",
                           IF found THEN "element" ELSE "null"),
                  "options", mergeDefaultOptions(variant, userOptions)),
         LAMBDA w2 :
             IF ~found THEN [threw |-> FALSE, world |-> w2]
             ELSE
    Then(prepareData(variant, w2.this.options, rawData),
         LAMBDA p :
             IF p.threw THEN [threw |-> TRUE, world |-> w2]
             ELSE Then(Then(SetField(w2, "data", p.prepared),
                            LAMBDA w3 : constructAfterData(variant, w3)),
                       LAMBDA w4 : [threw |-> w4.threw, world |-> w4])))

\* new Timetable(containerId, data, options) in the page w0; found says
\* whether document.getElementById(containerId) finds an element.  threw
\* is TRUE when prepareData throws (nothing after it runs) and when the
\* render that ends the constructor throws
constructor(variant, found, rawData, userOptions, w0) ==
    Then(SetField(SetField(w0, "container",
                           IF found THEN "element" ELSE "null"),
                  "options", mergeDefaultOptions(variant, userOptions)),
         LAMBDA w2 :
    Then(prepareData(variant, w2.this.options, rawData),
         LAMBDA p :
             IF p.threw THEN [threw |-> TRUE, world |-> w2]
             ELSE Then(Then(SetField(w2, "data", p.prepared),
                            LAMBDA w3 : constructAfterData(variant, w3)),
                       LAMBDA w4 : [threw |-> w4.threw, world |-> w4])))

(***************************************************************************)
(* The inputs of the model.                                                *)
(***************************************************************************)
Monday1 == <<"1", "0", "/", "0", "3", "/", "2", "0", "2", "5">>
Tuesday1 == <<"1", "1", "/", "0", "3", "/", "2", "0", "2", "5">>
Saturday1 == <<"1", "5", "/", "0", "3", "/", "2", "0", "2", "5">>

H1400to1500 == <<"1", "4", ":", "0", "0", "-", "1", "5", ":", "0", "0">>
H1400to1410 == <<"1", "4", ":", "0", "0", "-", "1", "4", ":", "1", "0">>
H1430to1530 == <<"1", "4", ":", "3", "0", "-", "1", "5", ":", "3", "0">>
H0730to0820 == <<"7", ":", "3", "0", "-", "8", ":", "2", "0">>
H1830to1920 == <<"1", "8", ":", "3", "0", "-", "1", "9", ":", "2", "0">>
H0905to1050 == <<"9", ":", "0", "5", "-", "1", "0", ":", "5", "0">>
HBadSeparator == <<"9", "h", "0", "0", "-", "1", "0", "h", "0", "0">>

RawRecord(date, heure, matiere) ==
    [Date |-> date, Heure |-> heure, Matiere |-> matiere, Salle |-> "",
     Personnel |-> "", Groupe |-> "", Categorie |-> "", CategorieAscii |-> "",
     Remarques |-> ""]

\* the records the raw input is made of; an absent field is ""
RecordPool ==
    {RawRecord(Monday1, H1400to1500, "A"),
     RawRecord(Monday1, H1400to1410, "B"),
     RawRecord(Monday1, H1430to1530, "C"),
     RawRecord(Monday1, H0730to0820, "D"),
     RawRecord(Tuesday1, H1830to1920, "E"),
     RawRecord(Tuesday1, H0905to1050, "H"),
     RawRecord(Monday1, HBadSeparator, "F"),
     RawRecord(Saturday1, HBadSeparator, "G")}

\* the lists of at most n different records of the pool
RECURSIVE ListsUpTo(_)
ListsUpTo(n) ==
    IF n = 0 THEN {<<>>}
    ELSE ListsUpTo(n - 1) \cup
         {Append(l, r) : l \in {k \in ListsUpTo(n - 1) : Len(k) = n - 1},
                         r \in RecordPool}

RawInputs ==
    {l \in ListsUpTo(MaxRecords) :
        \A i, j \in 1..Len(l) : i # j => l[i] # l[j]}

UserOptions ==
    {[timeInterval |-> 15], [timeInterval |-> 45],
     [timeInterval |-> 15, modalEnabled |-> FALSE]}

(***************************************************************************)
(* The state machine.                                                      *)
(***************************************************************************)
VARIABLES
    variant,        \* which version of the class is loaded
    found,          \* whether the page has the container element
    rawData,        \* the constructor's data argument
    userOptions,    \* the constructor's options argument
    phase,          \* "new", "constructed", or "failed" (the constructor threw)
    world,          \* the instance and the page
    renders,        \* the render() calls made after the construction
    cleaning        \* a call of _cleanCategoryForCss on its own: the argument
                    \* and, once it has returned, the result

vars == <<variant, found, rawData, userOptions, phase, world, renders,
          cleaning>>

\* no call of _cleanCategoryForCss on its own
NotCleaning == [category |-> <<>>, result |-> <<>>]

\* the page before the constructor runs: the container's own content, no
\* modal, no Font Awesome link, the body's own overflow style; threw says
\* whether the last call of a method of the instance threw
Page == [this |-> [x \in {} |-> 0], containerHTML |-> "host", cells |-> <<>>,
         cellOccupied |-> <<>>, docModals |-> 0, fontAwesome |-> FALSE,
         consoleErrors |-> 0, bodyOverflow |-> "", threw |-> FALSE]

Init ==
    /\ variant \in Variants
    /\ found \in BOOLEAN
    /\ rawData \in RawInputs
    /\ userOptions \in UserOptions
    /\ phase = "new"
    /\ world = Page
    /\ renders = 0
    /\ cleaning = NotCleaning

\* new Timetable(...)
Construct ==
    /\ phase = "new"
    /\ \E c \in {constructor(variant, found, rawData, userOptions, world)} :
           /\ phase' = IF c.threw THEN "failed" ELSE "constructed"
           /\ world' = c.world
    /\ UNCHANGED <<variant, found, rawData, userOptions, renders, cleaning>>

\* timetable.render(), called again by the page
Render ==
    /\ phase = "constructed"
    /\ renders < MaxRenders
    /\ world' = render(variant, world)
    /\ renders' = renders + 1
    /\ UNCHANGED <<variant, found, rawData, userOptions, phase, cleaning>>

Next == Construct \/ Render

Spec == Init /\ [][Next]_vars

(***************************************************************************)
(* What the claims speak of.                                               *)
(***************************************************************************)
\* the constructor returned
Constructed == phase = "constructed"

\* a render pass ran to its end (the container was found)
Rendered == Constructed /\ world.this.container # "null"

Buckets == world.this.data
SlotCount == Len(world.this.timeSlots)
Interval == world.this.options.timeInterval

\* the positions, in the table, of the event cells of a day
EventCellsOf(day) ==
    {k \in 1..Len(world.cells) :
        world.cells[k].kind = "event" /\ world.cells[k].day = day}

\* the event cells of a day that start in a row, in the order of the table
EventCellsAt(day, row) ==
    LET There(c) == c.kind = "event" /\ c.day = day /\ c.row = row
    IN  SelectSeq(world.cells, There)

\* the row an event starts in: its slotIndex in the first version, the row
\* whose time range holds its start in the second
StartRow(e) ==
    IF variant = FixedWindow THEN e.slotIndex[1]
    ELSE CHOOSE row \in 0..(SlotCount - 1) :
             /\ world.this.timeSlots[row + 1].minutes <= e.startMinutes
             /\ e.startMinutes < world.this.timeSlots[row + 1].minutes + Interval

\* the events of a day bucket that start in a row, in the bucket's order
EventsAt(day, row) ==
    LET There(e) == StartRow(e) = row
    IN  SelectSeq(Buckets[day], There)

\* the rows [row, row + rowSpan) a cell covers
RowsOf(c) == c.row..(c.row + c.rowSpan - 1)

\* C1: after a render pass of the first version (the one that computes
\* slotIndex), every event of every day bucket has a slotIndex, and it is a
\* row of the grid: 0 <= slotIndex <= timeSlots.length - 1.
C1_SlotIndexInRange ==
    (Rendered /\ variant = FixedWindow) =>
        \A e \in AllEvents(Buckets) :
            /\ Len(e.slotIndex) = 1
            /\ e.slotIndex[1] >= 0
            /\ e.slotIndex[1] <= SlotCount - 1

\* C1's case: one event starts before the first slot and is put in row 0,
\* another starts after the end of the last slot and is put in the last row
C1_Witness ==
    /\ Rendered
    /\ variant = FixedWindow
    /\ \E e1, e2 \in AllEvents(Buckets) :
           /\ e1.startMinutes < world.this.timeSlots[1].minutes
           /\ e1.slotIndex = <<0>>
           /\ e2.startMinutes >=
                  world.this.timeSlots[SlotCount].minutes + Interval
           /\ e2.slotIndex = <<SlotCount - 1>>

\* C2: in every render, every event of a day bucket is emitted as exactly
\* one event cell, in the row it starts in, also when an earlier event of
\* the day overlaps it or covers its starting row.
C2_EveryEventRendered ==
    Rendered =>
        \A day \in DOMAIN Buckets : \A e \in Range(Buckets[day]) :
            LET its == {k \in EventCellsOf(day) :
                            world.cells[k].event.id = e.id}
            IN  /\ Cardinality(its) = 1
                /\ \A k \in its : world.cells[k].row = StartRow(e)

\* C3: the events of a day that share a starting row which is not occupied
\* are emitted in that row, one cell each, in the day's sorted order.
C3_SiblingCells ==
    Rendered =>
        \A day \in DOMAIN Buckets : \A row \in 0..(SlotCount - 1) :
            row \notin world.cellOccupied[day] =>
                LET evs == EventsAt(day, row)
                    cs  == EventCellsAt(day, row)
                IN  /\ Len(cs) = Len(evs)
                    /\ \A k \in 1..Len(evs) : cs[k].event.id = evs[k].id

\* C3's case: two cells of one day in one row
C3_Witness ==
    /\ Rendered
    /\ \E day \in DOMAIN Buckets : \E row \in 0..(SlotCount - 1) :
           /\ row \notin world.cellOccupied[day]
           /\ Len(EventsAt(day, row)) >= 2
           /\ Len(EventCellsAt(day, row)) >= 2

\* C4: two event cells of one day that start in different rows cover
\* disjoint rows, and no cell, event or empty, is in a row that is marked
\* occupied for its day.
C4_ConflictFree ==
    Rendered =>
        /\ \A day \in DOMAIN Buckets : \A k1, k2 \in EventCellsOf(day) :
               world.cells[k1].row # world.cells[k2].row =>
                   RowsOf(world.cells[k1]) \cap RowsOf(world.cells[k2]) = {}
        /\ \A k \in 1..Len(world.cells) :
               world.cells[k].row \notin world.cellOccupied[world.cells[k].day]

\* C4's case: a day with event cells in different rows, and an event of
\* that day that starts in a row an emitted cell covers
C4_Witness ==
    /\ Rendered
    /\ \E day \in DOMAIN Buckets :
           /\ \E k1, k2 \in EventCellsOf(day) :
                  world.cells[k1].row # world.cells[k2].row
           /\ \E k \in EventCellsOf(day) : \E e \in Range(Buckets[day]) :
                  /\ StartRow(e) > world.cells[k].row
                  /\ StartRow(e) \in RowsOf(world.cells[k])

\* C5: every row marked occupied for a day is a row of the grid that lies
\* strictly inside the span of an event cell emitted in that day (after its
\* row s, before s + rowSpan); a day without event cell has no occupied row;
\* an event cell does not mark its own row.
C5_OccupiedBySpan ==
    Rendered =>
        /\ \A day \in DOMAIN Buckets : \A row \in world.cellOccupied[day] :
               /\ row <= SlotCount - 1
               /\ \E k \in EventCellsOf(day) :
                      /\ world.cells[k].row < row
                      /\ row < world.cells[k].row + world.cells[k].rowSpan
        /\ \A day \in DOMAIN Buckets :
               EventCellsOf(day) = {} => world.cellOccupied[day] = {}
        /\ \A day \in DOMAIN Buckets : \A k \in EventCellsOf(day) :
               LET c == world.cells[k]
                   marked == markedRows(c.rowSpan, c.row, SlotCount)
               IN  /\ c.row \notin marked
                   /\ marked \subseteq world.cellOccupied[day]

\* C5's case: rows are marked, and some cell's span runs past the last row
C5_Witness ==
    /\ Rendered
    /\ \E day \in DOMAIN Buckets : world.cellOccupied[day] # {}
    /\ \E day \in DOMAIN Buckets : \E k \in EventCellsOf(day) :
           world.cells[k].row + world.cells[k].rowSpan > SlotCount

\* C6: after a render, each day's events are in ascending order of
\* startMinutes, events with the same startMinutes in the order of the raw
\* input, and the cells of a day in one row are in the order of the bucket.
C6_SortedStable ==
    Rendered =>
        \A day \in DOMAIN Buckets :
            /\ \A i, j \in 1..Len(Buckets[day]) :
                   i < j =>
                       /\ Buckets[day][i].startMinutes
                              <= Buckets[day][j].startMinutes
                       /\ Buckets[day][i].startMinutes
                              = Buckets[day][j].startMinutes
                          => Buckets[day][i].id < Buckets[day][j].id
            /\ \A k1, k2 \in EventCellsOf(day) :
                   (k1 < k2 /\ world.cells[k1].row = world.cells[k2].row) =>
                       \E i, j \in 1..Len(Buckets[day]) :
                           /\ i < j
                           /\ Buckets[day][i].id = world.cells[k1].event.id
                           /\ Buckets[day][j].id = world.cells[k2].event.id

\* C6's case: a day whose raw records came with a later start first and
\* with two equal starts, both emitted in one row
C6_Witness ==
    /\ Rendered
    /\ \E day \in DOMAIN Buckets :
           /\ \E i, j \in 1..Len(Buckets[day]) :
                  /\ i < j
                  /\ Buckets[day][i].id > Buckets[day][j].id
           /\ \E i, j \in 1..Len(Buckets[day]) :
                  /\ i < j
                  /\ Buckets[day][i].startMinutes = Buckets[day][j].startMinutes
           /\ \E row \in 0..(SlotCount - 1) : Len(EventCellsAt(day, row)) >= 2

\* C7: the row-span of every rendered event is
\* max(minRowSpan, ceil(duration / timeInterval)).
C7_RowSpanHasMinimum ==
    Rendered =>
        \A k \in 1..Len(world.cells) :
            world.cells[k].kind = "event" =>
                world.cells[k].rowSpan =
                    Max(world.this.options.minRowSpan,
                        Ceil(world.cells[k].event.duration, Interval))

\* a time of the form H:MM or HH:MM, all of t
IsClockTime(t) ==
    /\ Len(t) \in {4, 5}
    /\ t[Len(t) - 2] = ":"
    /\ \A i \in 1..Len(t) : i # Len(t) - 2 => t[i] \in Digit

\* the place of the "-" of a time range of the form H:MM-H:MM, 0 if s is not
\* of that form
DashOf(s) ==
    LET at == {i \in 5..6 : /\ i < Len(s)
                            /\ s[i] = "-"
                            /\ IsClockTime(SubSeq(s, 1, i - 1))
                            /\ IsClockTime(SubSeq(s, i + 1, Len(s)))}
    IN  IF at = {} THEN 0 ELSE CHOOSE i \in at : TRUE

\* 60 * hours + minutes of a clock time, read digit by digit
ClockMinutes(t) ==
    LET hours == IF Len(t) = 5 THEN 10 * DigitVal(t[1]) + DigitVal(t[2])
                 ELSE DigitVal(t[1])
    IN  60 * hours + 10 * DigitVal(t[Len(t) - 1]) + DigitVal(t[Len(t)])

\* C8: an event made from a time-range string of the form H:MM-H:MM has
\* startMinutes = 60 * startHour + startMinute, endMinutes = 60 * endHour +
\* endMinute and duration = endMinutes - startMinutes; "14:00-15:00" gives
\* 840, 900 and 60.
C8_MinutesFromMidnight ==
    Constructed =>
        \A e \in AllEvents(Buckets) :
            LET heure == rawData[e.id].Heure
                dash  == DashOf(heure)
            IN  /\ dash # 0 =>
                       /\ e.startMinutes
                              = ClockMinutes(SubSeq(heure, 1, dash - 1))
                       /\ e.endMinutes
                              = ClockMinutes(SubSeq(heure, dash + 1, Len(heure)))
                       /\ e.duration = e.endMinutes - e.startMinutes
                /\ heure = H1400to1500 =>
                       /\ e.startMinutes = 840
                       /\ e.endMinutes = 900
                       /\ e.duration = 60

\* C8's case: events made from "14:00-15:00" and from a range with one-digit
\* hours
C8_Witness ==
    /\ Constructed
    /\ \E e1, e2 \in AllEvents(Buckets) :
           /\ rawData[e1.id].Heure = H1400to1500
           /\ e1.duration = 60
           /\ DashOf(rawData[e2.id].Heure) = 5
           /\ e2.startMinutes = 450

\* the time-range string of the i-th raw record does not match the pattern
Malformed(i) == RegexMatch(rawData[i].Heure) = <<>>

\* the date of the i-th raw record resolves to one of the day buckets
HasBucket(i) ==
    getDayOfWeek(variant, rawData[i].Date)
        \in Range(mergeDefaultOptions(variant, userOptions).weekdays)

\* C9 as stated: a record with a malformed time range makes the construction
\* fail, whatever its date and its position.
C9_MalformedAlwaysFails ==
    (phase # "new" /\ \E i \in 1..Len(rawData) : Malformed(i)) =>
        phase = "failed"

\* the constructor threw in prepareData (and not in the render that ends it)
NormalizationFailed == phase = "failed" /\ ~world.threw

\* C9 as amended: a record with a malformed time range whose date resolves
\* to one of the day buckets makes the construction fail, whatever its
\* position; and prepareData fails for no other reason.
C9_MalformedInBucketFails ==
    phase # "new" =>
        (NormalizationFailed <=>
            \E i \in 1..Len(rawData) : HasBucket(i) /\ Malformed(i))

\* C9's case: the construction failed on a record that is not the first,
\* after valid records; and a malformed record of no bucket was passed over
C9_Witness ==
    /\ phase = "failed"
    /\ Len(rawData) = 3
    /\ HasBucket(3) /\ Malformed(3)
    /\ HasBucket(1) /\ ~Malformed(1)
    /\ ~HasBucket(2) /\ Malformed(2)

\* C10: when the constructor throws in prepareData nothing of the pipeline
\* is left behind: no data, no timeSlots and no modal on the instance, no
\* modal and no stylesheet added to the document, the container's content
\* as it was, nothing rendered.
C10_NoPartialResult ==
    NormalizationFailed =>
        /\ DOMAIN world.this = {"container", "options"}
        /\ world.docModals = 0
        /\ world.fontAwesome = FALSE
        /\ world.containerHTML = "host"
        /\ world.cells = <<>>
        /\ world.cellOccupied = <<>>
        /\ world.consoleErrors = 0

\* C10's case: the constructor threw on the third record, after two valid
\* ones, with a container and the modal enabled
C10_Witness ==
    /\ phase = "failed"
    /\ found
    /\ variant = FixedWindow
    /\ mergeDefaultOptions(variant, userOptions).modalEnabled
    /\ Len(rawData) = 3
    /\ HasBucket(1) /\ ~Malformed(1)
    /\ HasBucket(2) /\ ~Malformed(2)
    /\ Malformed(3)

(***************************************************************************)
(* The weekdays option: records of the seven days of one week, under       *)
(* several configured sets of weekdays.                                    *)
(***************************************************************************)
\* the longest list of raw records of the specification SpecWeekdays
MaxWeekRecords == 2

\* the date of the d-th day (1 = Monday) of the week of 10/03/2025
DateOfWeek(d) ==
    <<"1", DigitChar(d - 1), "/", "0", "3", "/", "2", "0", "2", "5">>

\* a record of each day of the week, and a Saturday's whose time range does
\* not parse
WeekPool ==
    {RawRecord(DateOfWeek(d), H1400to1500, "W") : d \in 1..7}
        \cup {RawRecord(Saturday1, HBadSeparator, "G")}

RECURSIVE WeekListsUpTo(_)
WeekListsUpTo(n) ==
    IF n = 0 THEN {<<>>}
    ELSE WeekListsUpTo(n - 1) \cup
         {Append(l, r) : l \in {k \in WeekListsUpTo(n - 1) : Len(k) = n - 1},
                         r \in WeekPool}

\* the options argument: no weekdays (the default, Monday to Friday), the
\* weekend, the whole week, one day, two days in another order
WeekOptions ==
    {[timeInterval |-> 15],
     [weekdays |-> <<"Saturday", "Sunday">>],
     [weekdays |-> <<"Monday", "Tuesday", "Wednesday", "Thursday", "Friday",
                     "Saturday", "Sunday">>],
     [weekdays |-> <<"Wednesday">>],
     [weekdays |-> <<"Sunday", "Monday">>]}

InitWeekdays ==
    /\ variant \in Variants
    /\ found \in BOOLEAN
    /\ rawData \in WeekListsUpTo(MaxWeekRecords)
    /\ userOptions \in WeekOptions
    /\ phase = "new"
    /\ world = Page
    /\ renders = 0
    /\ cleaning = NotCleaning

SpecWeekdays == InitWeekdays /\ [][Next]_vars

\* the weekday of the calendar of a date of the week of 10/03/2025 (a
\* Monday), read off the day of the month
CalendarDay(date) ==
    <<"Monday", "Tuesday", "Wednesday", "Thursday", "Friday", "Saturday",
      "Sunday">>[10 * DigitVal(date[1]) + DigitVal(date[2]) - 9]

\* the configured weekdays
Weekdays == Range(mergeDefaultOptions(variant, userOptions).weekdays)

\* the i-th raw record is of a day that is not configured
OffWeek(i) == CalendarDay(rawData[i].Date) \notin Weekdays

\* the positions of the raw records of configured days, in order, and the
\* raw input without the others
KeptIds ==
    LET Kept(i) == ~OffWeek(i)
    IN  SelectSeq([i \in 1..Len(rawData) |-> i], Kept)
KeptRecords == [k \in 1..Len(KeptIds) |-> rawData[KeptIds[k]]]

\* a world whose events are numbered by ids: the k-th becomes ids[k]
Reindexed(w, ids) ==
    LET Ev(e) == [e EXCEPT !.id = ids[e.id]]
        this == IF "data" \in DOMAIN w.this
                THEN [w.this EXCEPT !.data =
                         [day \in DOMAIN w.this.data |->
                             [i \in 1..Len(w.this.data[day]) |->
                                 Ev(w.this.data[day][i])]]]
                ELSE w.this
    IN  [w EXCEPT !.this = this,
                  !.cells = [k \in 1..Len(w.cells) |->
                                IF w.cells[k].kind = "event"
                                THEN [w.cells[k] EXCEPT !.event = Ev(@)]
                                ELSE w.cells[k]]]

\* C11: a record of a day that is not configured is in no day bucket, has no
\* cell and raises no error: the construction ends (returns or throws) as it
\* does on the raw input without these records, and leaves the same instance
\* and the same page.
C11_OffWeekDropped ==
    /\ Constructed =>
           \A i \in 1..Len(rawData) :
               OffWeek(i) =>
                   /\ \A e \in AllEvents(Buckets) : e.id # i
                   /\ \A k \in 1..Len(world.cells) :
                          world.cells[k].kind = "event" =>
                              world.cells[k].event.id # i
    /\ (phase # "new" /\ renders = 0
            /\ \E i \in 1..Len(rawData) : OffWeek(i)) =>
           \E c \in {constructor(variant, found, KeptRecords, userOptions,
                                 Page)} :
               /\ c.threw = (phase = "failed")
               /\ Reindexed(c.world, KeptIds) = world

\* C11's case: under Monday to Friday, a Saturday record with a valid time
\* range before a record of a configured day, which is rendered
C11_Witness ==
    /\ Rendered
    /\ "weekdays" \notin DOMAIN userOptions
    /\ \E i, j \in 1..Len(rawData) :
           /\ i < j
           /\ OffWeek(i)
           /\ CalendarDay(rawData[i].Date) = "Saturday"
           /\ ~Malformed(i)
           /\ ~OffWeek(j)
           /\ \E k \in 1..Len(world.cells) :
                  /\ world.cells[k].kind = "event"
                  /\ world.cells[k].event.id = j

\* C12: a record with a valid time range whose date is of a configured
\* weekday, Saturday and Sunday included, is in exactly one place of the day
\* buckets, in the bucket of that weekday.
C12_InBucketOfItsDay ==
    Constructed =>
        \A i \in 1..Len(rawData) :
            (~OffWeek(i) /\ ~Malformed(i)) =>
                LET places == {p \in {<<day, n>> : day \in DOMAIN Buckets,
                                                   n \in 1..Len(rawData)} :
                                  /\ p[2] <= Len(Buckets[p[1]])
                                  /\ Buckets[p[1]][p[2]].id = i}
                IN  /\ Cardinality(places) = 1
                    /\ \A p \in places : p[1] = CalendarDay(rawData[i].Date)

(***************************************************************************)
(* The display fields: one record, each of its optional fields present or  *)
(* absent.                                                                 *)
(***************************************************************************)
\* the raw records with a date and a time range and any of the optional
\* fields; Categorie is the category key written with the typographic
\* apostrophe (as in the README), CategorieAscii the key written with the
\* straight one
FieldRecords ==
    [Date : {Monday1}, Heure : {H1400to1500},
     Matiere : {"", "IN2R06"}, Salle : {"", "Amphi B - VEL"},
     Personnel : {"", "ZEITOUNI Karine"}, Groupe : {"", "INF1"},
     Categorie : {"", "Cours Magistraux (CM)"},
     CategorieAscii : {"", "Travaux Pratiques (TP)"},
     Remarques : {"", "Bring a laptop"}]

InitFields ==
    /\ variant \in Variants
    /\ found \in BOOLEAN
    /\ rawData \in {<<r>> : r \in FieldRecords}
    /\ userOptions = [timeInterval |-> 15]
    /\ phase = "new"
    /\ world = Page
    /\ renders = 0
    /\ cleaning = NotCleaning

SpecFields == InitFields /\ [][Next]_vars

\* C13: every display field of a normalized event is its raw field when
\* that is present and its own sentinel when it is absent, whatever the
\* other fields are: name "Unspecified", location "TBD", staff "N/A", group
\* "All", category "Other", remarks "".
C13_FieldsDefaultedAlone ==
    Constructed =>
        \A e \in AllEvents(Buckets) :
            LET r == rawData[e.id]
            IN  /\ e.name = (IF r.Matiere # "" THEN r.Matiere
                             ELSE "Unspecified")
                /\ e.location = (IF r.Salle # "" THEN r.Salle ELSE "TBD")
                /\ e.staff = (IF r.Personnel # "" THEN r.Personnel ELSE "N/A")
                /\ e.group = (IF r.Groupe # "" THEN r.Groupe ELSE "All")
                /\ e.category = (IF r.Categorie # "" THEN r.Categorie
                                 ELSE "Other")
                /\ e.remarks = r.Remarques

(***************************************************************************)
(* The grid: several time intervals, events inside and outside the fixed   *)
(* window, and time ranges whose hours or minutes are not of a clock.      *)
(***************************************************************************)
\* the longest list of raw records of the specification SpecGrid
MaxGridRecords == 2

H0905to1000 == <<"9", ":", "0", "5", "-", "1", "0", ":", "0", "0">>
H1000to1050 == <<"1", "0", ":", "0", "0", "-", "1", "0", ":", "5", "0">>
H2500to2600 == <<"2", "5", ":", "0", "0", "-", "2", "6", ":", "0", "0">>
H1075to1100 == <<"1", "0", ":", "7", "5", "-", "1", "1", ":", "0", "0">>

GridPool ==
    {RawRecord(Monday1, H0905to1000, "P"),
     RawRecord(Tuesday1, H1000to1050, "Q"),
     RawRecord(Monday1, H0730to0820, "D"),
     RawRecord(Monday1, H2500to2600, "X"),
     RawRecord(Tuesday1, H1075to1100, "Y")}

RECURSIVE GridListsUpTo(_)
GridListsUpTo(n) ==
    IF n = 0 THEN {<<>>}
    ELSE GridListsUpTo(n - 1) \cup
         {Append(l, r) : l \in {k \in GridListsUpTo(n - 1) : Len(k) = n - 1},
                         r \in GridPool}

\* the timeInterval option: divisors of the window's 600 minutes and of the
\* hour, numbers that divide neither, the window's length and more
GridIntervals == {4, 7, 15, 30, 45, 60, 100, 600, 700}

InitGrid ==
    /\ variant \in Variants
    /\ found \in BOOLEAN
    /\ rawData \in GridListsUpTo(MaxGridRecords)
    /\ userOptions \in {[timeInterval |-> i] : i \in GridIntervals}
    /\ phase = "new"
    /\ world = Page
    /\ renders = 0
    /\ cleaning = NotCleaning

SpecGrid == InitGrid /\ [][Next]_vars

\* C14: the slots of the fixed window are those of an instance made with no
\* event and the same options; slot i (from 0) has minutes 480 + i *
\* timeInterval; they grow strictly, are all the values of that form below
\* 1080, ceil(600 / timeInterval) in number; isHour is minutes % 60 = 0 and
\* isHalfHour is minutes % 60 = 30.
C14_FixedWindowSlots ==
    (Constructed /\ variant = FixedWindow) =>
        LET slots == world.this.timeSlots
        IN  /\ \E c \in {constructor(variant, FALSE, <<>>, userOptions, Page)} :
                   slots = c.world.this.timeSlots
            /\ Len(slots) = Ceil(600, Interval)
            /\ \A i \in 1..Len(slots) :
                   /\ slots[i].minutes = 480 + (i - 1) * Interval
                   /\ slots[i].minutes < 1080
                   /\ i > 1 => slots[i - 1].minutes < slots[i].minutes
                   /\ slots[i].isHour <=> slots[i].minutes % 60 = 0
                   /\ slots[i].isHalfHour <=> slots[i].minutes % 60 = 30
            /\ 480 + Len(slots) * Interval >= 1080

\* C14's case: an interval that divides neither the window nor the hour,
\* with events, one of them before the window
C14_Witness ==
    /\ Constructed
    /\ variant = FixedWindow
    /\ Interval = 7
    /\ Len(world.this.timeSlots) = 86
    /\ \E e \in AllEvents(Buckets) : e.startMinutes < 480
    /\ \E i \in 1..Len(world.this.timeSlots) : world.this.timeSlots[i].isHalfHour

\* the events of all the day buckets are the events of "09:05-10:00" and
\* "10:00-10:50" (one or both)
OnlyFrom0905To1050 ==
    /\ AllEvents(Buckets) # {}
    /\ \A e \in AllEvents(Buckets) :
           rawData[e.id].Heure \in {H0905to1000, H1000to1050}
    /\ \E e \in AllEvents(Buckets) : rawData[e.id].Heure = H0905to1000
    /\ \E e \in AllEvents(Buckets) : rawData[e.id].Heure = H1000to1050

\* C15: the data-driven grid of an instance with events starts at
\* floor(min startMinutes / timeInterval) * timeInterval and ends at
\* ceil(max endMinutes / timeInterval) * timeInterval, over the events of
\* all days; every event has its start and its end in it; events from 09:05
\* to 10:50 with timeInterval 30 give the slots 09:00, 09:30, 10:00, 10:30.
C15_DataDrivenGrid ==
    (Constructed /\ variant = DataDriven /\ AllEvents(Buckets) # {}) =>
        LET slots  == world.this.timeSlots
            starts == {e.startMinutes : e \in AllEvents(Buckets)}
            ends   == {e.endMinutes : e \in AllEvents(Buckets)}
            first  == Floor(CHOOSE x \in starts : \A y \in starts : x <= y,
                            Interval) * Interval
            last   == Ceil(CHOOSE x \in ends : \A y \in ends : x >= y,
                           Interval) * Interval
        IN  /\ first < last =>
                   /\ Len(slots) > 0
                   /\ slots[1].minutes = first
                   /\ slots[Len(slots)].minutes + Interval = last
                   /\ \A i \in 2..Len(slots) :
                          slots[i].minutes = slots[i - 1].minutes + Interval
            /\ first >= last => slots = <<>>
            /\ \A e \in AllEvents(Buckets) :
                   first <= e.startMinutes /\ e.endMinutes <= last
            /\ (OnlyFrom0905To1050 /\ Interval = 30) =>
                   [i \in 1..Len(slots) |-> slots[i].label] =
                       << <<"0", "9", ":", "0", "0">>, <<"0", "9", ":", "3", "0">>,
                          <<"1", "0", ":", "0", "0">>, <<"1", "0", ":", "3", "0">> >>

\* C19: every normalized event has startMinutes and endMinutes in 0..1439.
C19_ClockOffsets ==
    Constructed =>
        \A e \in AllEvents(Buckets) :
            /\ e.startMinutes \in 0..1439
            /\ e.endMinutes \in 0..1439

(***************************************************************************)
(* The container, and rendering again.                                     *)
(***************************************************************************)
\* the longest list of raw records of the specification SpecRerender
MaxRerenderRecords == 2

\* the instances of Init with shorter lists of raw records
InitRerender ==
    /\ variant \in Variants
    /\ found \in BOOLEAN
    /\ rawData \in {l \in ListsUpTo(MaxRerenderRecords) :
                        \A i, j \in 1..Len(l) : i # j => l[i] # l[j]}
    /\ userOptions \in UserOptions
    /\ phase = "new"
    /\ world = Page
    /\ renders = 0
    /\ cleaning = NotCleaning

SpecRerender == InitRerender /\ [][Next]_vars

\* an event without what a render pass adds to it
Strip(e) == [e EXCEPT !.slotIndex = <<>>]

\* two sets of day buckets hold the same events, slotIndex and order aside
SameEvents(d1, d2) ==
    /\ DOMAIN d1 = DOMAIN d2
    /\ \A day \in DOMAIN d1 :
           /\ Len(d1[day]) = Len(d2[day])
           /\ {Strip(e) : e \in Range(d1[day])}
                  = {Strip(e) : e \in Range(d2[day])}

\* C16: without container the construction throws only when prepareData
\* does, never for the missing container; the instance has the same
\* properties, the day buckets hold the same normalized events and timeSlots
\* is the same sequence; each render() logs an error and leaves the page as
\* it was, with no table; all this still holds after later render() calls.
C16_MissingContainer ==
    (phase # "new" /\ ~found) =>
        \E c \in {constructor(variant, TRUE, rawData, userOptions, Page)} :
            /\ (phase = "failed") =
                   prepareData(variant,
                               mergeDefaultOptions(variant, userOptions),
                               rawData).threw
            /\ Constructed =>
                   /\ DOMAIN world.this = DOMAIN c.world.this
                   /\ SameEvents(world.this.data, c.world.this.data)
                   /\ world.this.timeSlots = c.world.this.timeSlots
                   /\ world.this.options = c.world.this.options
                   /\ world.consoleErrors = renders + 1
                   /\ world.containerHTML = "host"
                   /\ world.cells = <<>>

\* C16's case: no container, events that a render with a container would
\* reorder, and a render() call after the construction
C16_Witness ==
    /\ Constructed
    /\ ~found
    /\ renders >= 1
    /\ world.consoleErrors >= 2
    /\ \E day \in DOMAIN Buckets : \E i, j \in 1..Len(Buckets[day]) :
           i < j /\ Buckets[day][i].startMinutes > Buckets[day][j].startMinutes

\* the day buckets prepareData makes of the raw input, under the instance's
\* options as they are now
PreparedAgain == prepareData(variant, world.this.options, rawData).prepared

\* C17: prepareData, run again on the raw input, gives day buckets that
\* hold the events the instance holds (slotIndex and order aside); and
\* after any number of render() calls on a constructed instance the table
\* (cells, rows, row-spans, occupied rows) and the instance are what the
\* constructor, which renders once, left.
C17_Idempotent ==
    (Constructed /\ renders >= 1) =>
        /\ SameEvents(PreparedAgain, Buckets)
        /\ \E c \in {constructor(variant, found, rawData, userOptions, Page)} :
               /\ world.cells = c.world.cells
               /\ world.cellOccupied = c.world.cellOccupied
               /\ world.this = c.world.this
               /\ world.containerHTML = c.world.containerHTML
               /\ world.docModals = c.world.docModals

\* C17's case: a table with several event cells and occupied rows, rendered
\* again
C17_Witness ==
    /\ Rendered
    /\ renders >= 1
    /\ \E day \in DOMAIN Buckets :
           /\ world.cellOccupied[day] # {}
           /\ Cardinality(EventCellsOf(day)) >= 2

\* the day buckets and the slots as they are when the constructor calls
\* render
BeforeRender == prepareData(variant, world.this.options, rawData).prepared
SlotsBeforeRender == generateTimeSlots(variant, world.this.options, BeforeRender)

\* C18 as stated: after render() the options, the timeSlots, and the events
\* of every day bucket, in their order and slotIndex aside, are what they
\* were before it.
C18_RenderKeepsAll ==
    Rendered =>
        /\ world.this.options = mergeDefaultOptions(variant, userOptions)
        /\ world.this.timeSlots = SlotsBeforeRender
        /\ \A day \in DOMAIN Buckets :
               [i \in 1..Len(Buckets[day]) |-> Strip(Buckets[day][i])]
                   = BeforeRender[day]

\* C18 as amended: after render() the options, the timeSlots, and the
\* events of every day bucket, slotIndex aside, are what they were before
\* it; their order in the bucket may have changed (render sorts them).
C18_RenderKeepsAllButOrder ==
    Rendered =>
        /\ world.this.options = mergeDefaultOptions(variant, userOptions)
        /\ world.this.timeSlots = SlotsBeforeRender
        /\ SameEvents(Buckets, BeforeRender)

\* C18's case: the first version has rendered, again too, a bucket whose
\* events came in another order than the sorted one, and set their slotIndex
C18_Witness ==
    /\ Rendered
    /\ variant = FixedWindow
    /\ renders >= 1
    /\ \E day \in DOMAIN Buckets : \E i, j \in 1..Len(Buckets[day]) :
           /\ i < j
           /\ Buckets[day][i].id > Buckets[day][j].id
           /\ Buckets[day][i].slotIndex # <<>>

(***************************************************************************)
(* The modal: clicks on the rendered events, calls of openModal and        *)
(* closeModal, the Escape key, clicks on the close buttons, on the         *)
(* backdrop and inside the modal.                                          *)
(***************************************************************************)
\* the longest list of raw records of the specification SpecModal
MaxModalRecords == 2

\* the README's record, a record with no optional field, one of another
\* day, one whose category is a parenthesized group and nothing else
ModalPool ==
    {[Date |-> Monday1, Heure |-> H1400to1500, Matiere |-> "IN2R06",
      Salle |-> "Amphi B - VEL", Personnel |-> "ZEITOUNI Karine",
      Groupe |-> "INF1", Categorie |-> "Cours Magistraux (CM)",
      CategorieAscii |-> "Cours Magistraux (CM)", Remarques |-> ""],
     RawRecord(Monday1, H1430to1530, ""),
     RawRecord(Tuesday1, H0905to1050, "H"),
     [RawRecord(Tuesday1, H1400to1500, "CM") EXCEPT !.Categorie = "(CM)",
                                                    !.CategorieAscii = "(CM)"]}

RECURSIVE ModalListsUpTo(_)
ModalListsUpTo(n) ==
    IF n = 0 THEN {<<>>}
    ELSE ModalListsUpTo(n - 1) \cup
         {Append(l, r) : l \in {k \in ModalListsUpTo(n - 1) : Len(k) = n - 1},
                         r \in ModalPool}

ModalOptions ==
    {[timeInterval |-> 15], [modalEnabled |-> TRUE], [modalEnabled |-> FALSE]}

InitModal ==
    /\ variant \in Variants
    /\ found \in BOOLEAN
    /\ rawData \in ModalListsUpTo(MaxModalRecords)
    /\ userOptions \in ModalOptions
    /\ phase = "new"
    /\ world = Page
    /\ renders = 0
    /\ cleaning = NotCleaning

\* a click on an event of the table
ClickEvent ==
    /\ phase = "constructed"
    /\ \E k \in 1..Len(world.cells) :
           /\ world.cells[k].kind = "event"
           /\ world' = clickEvent(world, k)
    /\ UNCHANGED <<variant, found, rawData, userOptions, phase, renders,
                 cleaning>>

\* timetable.openModal(event), called by the page with an event of the
\* instance (the second version has no such method)
OpenModal ==
    /\ phase = "constructed"
    /\ variant = FixedWindow
    /\ \E e \in AllEvents(world.this.data) : world' = openModal(world, e)
    /\ UNCHANGED <<variant, found, rawData, userOptions, phase, renders,
                 cleaning>>

\* timetable.closeModal(), called by the page
CloseModal ==
    /\ phase = "constructed"
    /\ variant = FixedWindow
    /\ world' = closeModal(world)
    /\ UNCHANGED <<variant, found, rawData, userOptions, phase, renders,
                 cleaning>>

\* the Escape key is pressed
PressEscape ==
    /\ phase = "constructed"
    /\ world' = pressEscape(variant, world)
    /\ UNCHANGED <<variant, found, rawData, userOptions, phase, renders,
                 cleaning>>

\* a click on the close button of the modal's header, or on the one
\* openModal puts in its footer
ClickClose ==
    /\ phase = "constructed"
    /\ variant = FixedWindow
    /\ ~world.this.modalElement.isNull
    /\ world' = clickClose(world)
    /\ UNCHANGED <<variant, found, rawData, userOptions, phase, renders,
                 cleaning>>

\* a click on the backdrop, or inside the modal
ClickBackdrop ==
    /\ phase = "constructed"
    /\ variant = FixedWindow
    /\ ~world.this.modalElement.isNull
    /\ \E target \in {"backdrop", "content"} :
           world' = clickBackdrop(world, target)
    /\ UNCHANGED <<variant, found, rawData, userOptions, phase, renders,
                 cleaning>>

NextModal ==
    \/ Construct \/ Render \/ ClickEvent \/ OpenModal \/ CloseModal
    \/ PressEscape \/ ClickClose \/ ClickBackdrop

SpecModal == InitModal /\ [][NextModal]_vars

\* the modal shows an event: active, with its name as title and its
\* sections as body, and the page's scrolling locked
ModalShows(w, e) ==
    /\ ~w.this.modalElement.isNull
    /\ w.this.modalElement.active
    /\ w.this.modalElement.title = e.name
    /\ w.this.modalElement.body = modalContent(e)
    /\ w.bodyOverflow = "hidden"

MaxToggleRecords == 2

\* a record with a staff and a room, one with neither, one with a staff
TogglePool ==
    {[Date |-> Monday1, Heure |-> H1400to1500, Matiere |-> "IN2R06",
      Salle |-> "Amphi B - VEL", Personnel |-> "ZEITOUNI Karine",
      Groupe |-> "INF1", Categorie |-> "TD", CategorieAscii |-> "TD",
      Remarques |-> ""],
     RawRecord(Tuesday1, H0905to1050, "H"),
     [RawRecord(Tuesday1, H1400to1410, "B") EXCEPT !.Personnel = "DUPONT Luc"]}

RECURSIVE ToggleListsUpTo(_)
ToggleListsUpTo(n) ==
    IF n = 0 THEN {<<>>}
    ELSE ToggleListsUpTo(n - 1) \cup
         {Append(l, r) : l \in {k \in ToggleListsUpTo(n - 1) : Len(k) = n - 1},
                         r \in TogglePool}

ToggleOptions ==
    {[timeInterval |-> 15],
     [showProf |-> FALSE], [showClasse |-> FALSE],
     [showProf |-> FALSE, showClasse |-> FALSE],
     [showProf |-> TRUE, showClasse |-> TRUE],
     [showIcons |-> FALSE, showProf |-> FALSE, showClasse |-> TRUE]}

InitToggles ==
    /\ variant \in Variants
    /\ found \in BOOLEAN
    /\ rawData \in ToggleListsUpTo(MaxToggleRecords)
    /\ userOptions \in ToggleOptions
    /\ phase = "new"
    /\ world = Page
    /\ renders = 0
    /\ cleaning = NotCleaning

SpecToggles == InitToggles /\ [][Next]_vars

\* the value of a toggle of the README: the user's, true when not given
Toggle(options, name) ==
    IF name \in DOMAIN options THEN options[name] ELSE TRUE

\* an event cell shows a detail of a class
Shows(c, class) == \E i \in 1..Len(c.details) : c.details[i].class = class

\* C21: showProf and showClasse default to true; in every render, when
\* showProf is false no event cell shows the staff detail, when showClasse
\* is false no event cell shows the room detail, and when they are true (or
\* not given) a staff other than "N/A" and a room other than "TBD" are shown.
C21_FieldToggles ==
    Rendered =>
        \A k \in 1..Len(world.cells) :
            world.cells[k].kind = "event" =>
                LET c == world.cells[k]
                    showProf == Toggle(world.this.options, "showProf")
                    showClasse == Toggle(world.this.options, "showClasse")
                IN  /\ ~showProf => ~Shows(c, "staff")
                    /\ ~showClasse => ~Shows(c, "location")
                    /\ (showProf /\ c.event.staff # "N/A") => Shows(c, "staff")
                    /\ (showClasse /\ c.event.location # "TBD")
                           => Shows(c, "location")

(***************************************************************************)
(* Rows and row-spans: events inside, before, after and across the end of  *)
(* the grid, on intervals that do and do not divide the window.            *)
(***************************************************************************)
\* the longest list of raw records of the specification SpecSlots
MaxSlotRecords == 2

H2200to0200 == <<"2", "2", ":", "0", "0", "-", "0", "2", ":", "0", "0">>
H1700to1830 == <<"1", "7", ":", "0", "0", "-", "1", "8", ":", "3", "0">>

\* two events that start off the slots' starts, one before 08:00, one after
\* 18:00, one across 18:00, a short one, one that ends after midnight
SlotPool ==
    {RawRecord(Monday1, H0905to1000, "P"),
     RawRecord(Tuesday1, H0905to1050, "H"),
     RawRecord(Monday1, H0730to0820, "D"),
     RawRecord(Tuesday1, H1830to1920, "E"),
     RawRecord(Tuesday1, H1700to1830, "L"),
     RawRecord(Monday1, H1400to1410, "B"),
     RawRecord(Tuesday1, H2200to0200, "O")}

RECURSIVE SlotListsUpTo(_)
SlotListsUpTo(n) ==
    IF n = 0 THEN {<<>>}
    ELSE SlotListsUpTo(n - 1) \cup
         {Append(l, r) : l \in {k \in SlotListsUpTo(n - 1) : Len(k) = n - 1},
                         r \in SlotPool}

SlotIntervals == {7, 15, 45}

InitSlots ==
    /\ variant \in Variants
    /\ found \in BOOLEAN
    /\ rawData \in SlotListsUpTo(MaxSlotRecords)
    /\ userOptions \in {[timeInterval |-> i] : i \in SlotIntervals}
    /\ phase = "new"
    /\ world = Page
    /\ renders = 0
    /\ cleaning = NotCleaning

SpecSlots == InitSlots /\ [][Next]_vars

\* the rows whose time range holds a time
SlotsHolding(minutes) ==
    {row \in 0..(SlotCount - 1) :
        /\ world.this.timeSlots[row + 1].minutes <= minutes
        /\ minutes < world.this.timeSlots[row + 1].minutes + Interval}

\* the rows in which render looks for an event and finds it
RowsFinding(e) ==
    {row \in 0..(SlotCount - 1) :
        startsHere(variant, world.this.options, world.this.timeSlots[row + 1],
                   row, e)}

\* C22: after a render pass, an event that starts inside the grid has for
\* slotIndex (the row render finds it in) the one slot with slot.minutes <=
\* startMinutes < slot.minutes + timeInterval; an event that starts before
\* the first slot has row 0, and one that starts at or after the end of the
\* last slot has the last row: neither is without a row.
C22_SlotOfStart ==
    (Rendered /\ SlotCount > 0) =>
        \A e \in AllEvents(Buckets) :
            LET gridStart == world.this.timeSlots[1].minutes
                gridEnd == world.this.timeSlots[SlotCount].minutes + Interval
            IN  /\ variant = FixedWindow => RowsFinding(e) = {e.slotIndex[1]}
                /\ (gridStart <= e.startMinutes /\ e.startMinutes < gridEnd) =>
                       /\ Cardinality(SlotsHolding(e.startMinutes)) = 1
                       /\ RowsFinding(e) = SlotsHolding(e.startMinutes)
                /\ e.startMinutes < gridStart => RowsFinding(e) = {0}
                /\ e.startMinutes >= gridEnd => RowsFinding(e) = {SlotCount - 1}

\* the rows of the grid whose time range intersects [from, to)
SlotsIntersecting(from, to) ==
    {row \in 0..(SlotCount - 1) :
        /\ world.this.timeSlots[row + 1].minutes < to
        /\ world.this.timeSlots[row + 1].minutes + Interval > from}

\* C24: for every rendered event whose [startMinutes, endMinutes) lies
\* inside the grid, the rows its cell covers, [slotIndex, slotIndex +
\* rowSpan), include every slot that intersects [startMinutes, endMinutes),
\* also when the event starts off the start of a slot.
C24_SpanCoversEvent ==
    (Rendered /\ SlotCount > 0) =>
        \A k \in 1..Len(world.cells) :
            LET c == world.cells[k]
                gridStart == world.this.timeSlots[1].minutes
                gridEnd == world.this.timeSlots[SlotCount].minutes + Interval
            IN  (/\ c.kind = "event"
                 /\ gridStart <= c.event.startMinutes
                 /\ c.event.startMinutes < c.event.endMinutes
                 /\ c.event.endMinutes <= gridEnd)
                    => SlotsIntersecting(c.event.startMinutes,
                                         c.event.endMinutes) \subseteq RowsOf(c)

\* C25: no emitted event cell spans past the bottom of the grid: for every
\* event cell emitted at row s with rowspan attribute r, s + r <=
\* timeSlots.length, also for an event that ends after the grid's end and
\* for one clamped to the first or the last row.
C25_SpanInsideGrid ==
    Rendered =>
        \A k \in 1..Len(world.cells) :
            (world.cells[k].kind = "event" /\ world.cells[k].rowspan # <<>>) =>
                world.cells[k].row + world.cells[k].rowspan[1] <= SlotCount

(***************************************************************************)
(* _cleanCategoryForCss on its own, on every category of a few characters. *)
(***************************************************************************)
\* the longest category handed to _cleanCategoryForCss
MaxCategoryLen == 4

\* an upper-case letter, a lower-case one, whitespace and the parentheses
CssAlphabet == {"A", "b", " ", "(", ")"}

RECURSIVE CategoriesUpTo(_)
CategoriesUpTo(n) ==
    IF n = 0 THEN {<<>>}
    ELSE CategoriesUpTo(n - 1) \cup
         {Append(c, x) : c \in {k \in CategoriesUpTo(n - 1) : Len(k) = n - 1},
                         x \in CssAlphabet}

InitCss ==
    /\ variant = FixedWindow
    /\ found = FALSE
    /\ rawData = <<>>
    /\ userOptions = [timeInterval |-> 15]
    /\ phase = "new"
    /\ world = Page
    /\ renders = 0
    /\ cleaning \in {[category |-> c, result |-> <<>>] :
                         c \in CategoriesUpTo(MaxCategoryLen)}

\* this._cleanCategoryForCss(category)
CleanCategory ==
    /\ cleaning.result = <<>>
    /\ cleaning' = [cleaning EXCEPT
                        !.result = <<cleanCategoryForCss(cleaning.category)>>]
    /\ UNCHANGED <<variant, found, rawData, userOptions, phase, world, renders>>

NextCss == CleanCategory

SpecCss == InitCss /\ [][NextCss]_vars

\* a sequence of characters holds a parenthesized group
HasParenGroup(s) ==
    \E j, k \in 1..Len(s) : j < k /\ s[j] = "(" /\ s[k] = ")"

\* C26: for every category, and for an absent one, the result of
\* _cleanCategoryForCss is not empty and holds no whitespace, no upper-case
\* letter and no parenthesized group, so classList.add takes it, in render
\* and in openModal; and _cleanCategoryForCss of the result is the result.
C26_CssSafeToken ==
    cleaning.result # <<>> =>
        LET token == cleaning.result[1]
        IN  /\ token # <<>>
            /\ \A i \in 1..Len(token) : token[i] \notin Whitespace
            /\ ToLowerCase(token) = token
            /\ ~HasParenGroup(token)
            /\ ~classListAddThrows(token)
            /\ cleanCategoryForCss(token) = token

\* the modal is closed: not active, the page's scrolling not locked
ModalClosed(w) ==
    /\ ~w.this.modalElement.active
    /\ w.bodyOverflow = ""

\* C23: for an instance with the modal enabled, after any openModal and
\* closeModal calls, Escape key presses and clicks on the close buttons, on
\* the backdrop and inside the modal: the page's scrolling is locked
\* exactly when the modal is active; openModal(event) leaves the modal
\* active, showing that event; closeModal, Escape and a click on the
\* backdrop itself leave it closed, with scrolling restored; a click inside
\* the modal changes nothing; and Escape while it is not active changes
\* nothing.
C23_ModalLifecycle ==
    (/\ Constructed
     /\ variant = FixedWindow
     /\ world.this.options.modalEnabled) =>
        /\ ~world.this.modalElement.isNull
        /\ (world.bodyOverflow = "hidden") <=> world.this.modalElement.active
        /\ \A e \in AllEvents(Buckets) : ModalShows(openModal(world, e), e)
        /\ ModalClosed(closeModal(world))
        /\ ModalClosed(clickClose(world))
        /\ ModalClosed(pressEscape(variant, world))
        /\ ModalClosed(clickBackdrop(world, "backdrop"))
        /\ clickBackdrop(world, "content") = world
        /\ ~world.this.modalElement.active =>
               pressEscape(variant, world) = world

====
